---- MODULE Spec2Model ----
(***************************************************************************)
(* ShuffleReaderExec (rust/ballista/src/executor/shuffle_reader.rs): the   *)
(* leaf plan node that reads already materialized shuffle partitions from  *)
(* remote executors.  The node's two fields are the state; the plan-node   *)
(* operations are the actions; execute() is split at its two await points  *)
(* so that concurrent calls interleave.                                    *)
(***************************************************************************)
EXTENDS Integers, Sequences, FiniteSets, TLC

\* ------------------------------------------------------------------ bounds
\* Longest partition_location list a node is created with.
MaxLocs == 2
\* Most record batches one fetch_partition reply carries.
MaxBatches == 2

\* ------------------------------------------------------------ input domains
\* The tasks of the enclosing engine that call execute() concurrently.
Tasks == {"t0", "t1"}

\* PartitionLocation values the scheduler may hand over.  The partition_id
\* field of a location need not equal its position in the list.
LocationPool ==
    { [executor_meta |-> [host |-> "w1", port |-> 7001],
       partition_id  |-> [job_uuid |-> "J1", stage_id |-> 2, partition_id |-> 0]],
      [executor_meta |-> [host |-> "w2", port |-> 7001],
       partition_id  |-> [job_uuid |-> "J1", stage_id |-> 3, partition_id |-> 1]],
      [executor_meta |-> [host |-> "w2", port |-> 7002],
       partition_id  |-> [job_uuid |-> "J2", stage_id |-> 2, partition_id |-> 0]] }

SchemaPool == { <<"a:int32">>, <<"a:int32", "b:utf8">> }

\* A fetch reply of n record batches.  Batches are opaque to the reader; the
\* k-th batch of a reply is named k, so that the batches of a reply differ.
Reply(n) == [k \in 1..n |-> k]
FetchReplies == { Reply(n) : n \in 0..MaxBatches }

\* `partition: usize` arguments: every index of the longest list and one past it.
PartitionArgs == 0 .. MaxLocs

\* Causes the client reports (BallistaError values, opaque here).
ConnectErrors == {"ConnectRefused"}
FetchErrors == {"FetchIo", "RemoteExecutionFailed"}

\* Child lists handed to with_new_children.
ChildArgs == { <<>>, <<"child">> }

\* Vec values of at most n elements of S.
SeqsUpTo(S, n) == UNION { [1..k -> S] : k \in 0..n }

\* ------------------------------------------------------------------- state
VARIABLES
    partition_location,  \* self.partition_location
    schema,              \* self.schema
    pc,                  \* per task: position inside the method it called
    op,                  \* per task: the plan-node method it called last
    partition,           \* per task: the argument of the current execute()
    traces,              \* per task: info! records emitted by the current call
    connects,            \* per task: BallistaClient::try_new calls of the current call
    fetches,             \* per task: fetch_partition calls of the current call
    connRes,             \* per task: what the connection attempt answered
    fetchRes,            \* per task: what the fetch answered
    result,              \* per task: what the method returned
    yielded              \* per task: what polling the returned stream produced

vars == <<partition_location, schema, pc, op, partition, traces, connects, fetches,
          connRes, fetchRes, result, yielded>>

nodeVars == <<partition_location, schema>>

self == [partition_location |-> partition_location, schema |-> schema]

None == [tag |-> "None"]

\* --------------------------------------------------------- pure operations
\* try_new: stores both arguments unchanged.
try_new(partition_meta, sch) ==
    [partition_location |-> partition_meta, schema |-> sch]

\* schema(): a clone of the stored schema.
schema_of(node) == node.schema

\* Variant: never reports fewer than one partition.
output_partitioning_AtLeastOne(node) ==
    [kind |-> "UnknownPartitioning",
     n |-> IF Len(node.partition_location) = 0 THEN 1 ELSE Len(node.partition_location)]

\* output_partitioning(): UnknownPartitioning(len).
output_partitioning(node) ==
    [kind |-> "UnknownPartitioning", n |-> Len(node.partition_location)]

\* children(): vec![].
children(node) == <<>>

\* Variant: an empty child list is accepted and the node returned.
with_new_children_AcceptsEmpty(node, newChildren) ==
    IF newChildren = <<>>
    THEN [tag |-> "Ok", node |-> node]
    ELSE [tag |-> "Err",
          error |-> [kind |-> "Plan",
                     msg |-> <<"Ballista ShuffleReaderExec does not support with_new_children()">>]]

\* with_new_children(_children): always Err(Plan(..)).
with_new_children(node, newChildren) ==
    [tag |-> "Err",
     error |-> [kind |-> "Plan",
                msg |-> <<"Ballista ShuffleReaderExec does not support with_new_children()">>]]

\* `usize` index into the Vec: in range iff partition < len (0-based).
InRange(node, p) == p < Len(node.partition_location)

IndexLocation(node, p) == node.partition_location[p + 1]

\* Arguments of BallistaClient::try_new.
ConnectTarget(loc) ==
    [host |-> loc.executor_meta.host, port |-> loc.executor_meta.port]

\* Variant: requests the partition number stored in the location.
FetchKey_StoredPartitionId(loc, p) ==
    [job_uuid |-> loc.partition_id.job_uuid,
     stage_id |-> loc.partition_id.stage_id,
     partition_id |-> loc.partition_id.partition_id]

\* Arguments of client.fetch_partition.
FetchKey(loc, p) ==
    [job_uuid |-> loc.partition_id.job_uuid,
     stage_id |-> loc.partition_id.stage_id,
     partition_id |-> p]

\* Variant: fetch failures are reported under another error kind.
MapErr_FetchAsInternal(e) ==
    [tag |-> "Err",
     error |-> [kind |-> IF e \in FetchErrors THEN "Internal" ELSE "Execution",
                msg |-> <<"Ballista Error: ", e>>]]

\* .map_err(|e| DataFusionError::Execution(format!("Ballista Error: {:?}", e)))
MapErr(e) ==
    [tag |-> "Err", error |-> [kind |-> "Execution", msg |-> <<"Ballista Error: ", e>>]]

\* Variant: the last fetched batch is left out of the stream.
WrapStream_DropsLast(node, batches) ==
    [tag |-> "Ok",
     stream |-> [data |-> SubSeq(batches, 1, Len(batches) - 1),
                 schema |-> schema_of(node), limit |-> None, index |-> 0]]

\* Ok(Box::pin(MemoryStream::try_new(batches, self.schema(), None)?))
WrapStream(node, batches) ==
    [tag |-> "Ok",
     stream |-> [data |-> batches, schema |-> schema_of(node), limit |-> None, index |-> 0]]

\* The panic of an out-of-bounds Vec index: no Result reaches the caller.
IndexPanic == [tag |-> "Panic", msg |-> <<"index out of bounds">>]

\* MemoryStream::poll_next: the next batch if any, else end of stream.
PollNext(stream) ==
    IF stream.index < Len(stream.data)
    THEN [item |-> [tag |-> "Some", batch |-> stream.data[stream.index + 1]],
          stream |-> [stream EXCEPT !.index = @ + 1]]
    ELSE [item |-> None, stream |-> stream]

\* -------------------------------------------------------------------- Init
Init ==
    /\ \E locs \in SeqsUpTo(LocationPool, MaxLocs), sch \in SchemaPool :
          /\ partition_location = try_new(locs, sch).partition_location
          /\ schema = try_new(locs, sch).schema
    /\ pc = [t \in Tasks |-> "idle"]
    /\ op = [t \in Tasks |-> "none"]
    /\ partition = [t \in Tasks |-> 0]
    /\ traces = [t \in Tasks |-> <<>>]
    /\ connects = [t \in Tasks |-> <<>>]
    /\ fetches = [t \in Tasks |-> <<>>]
    /\ connRes = [t \in Tasks |-> None]
    /\ fetchRes = [t \in Tasks |-> None]
    /\ result = [t \in Tasks |-> None]
    /\ yielded = [t \in Tasks |-> <<>>]

\* ----------------------------------------------------------------- actions
\* Variant: the location is taken out of the list when it is resolved.
ExecuteStart_TakesLocation(t, p) ==
    /\ pc[t] \in {"idle", "done"}
    /\ InRange(self, p)
    /\ op' = [op EXCEPT ![t] = "execute"]
    /\ partition' = [partition EXCEPT ![t] = p]
    /\ traces' = [traces EXCEPT ![t] = <<p>>]
    /\ connRes' = [connRes EXCEPT ![t] = None]
    /\ fetchRes' = [fetchRes EXCEPT ![t] = None]
    /\ fetches' = [fetches EXCEPT ![t] = <<>>]
    /\ yielded' = [yielded EXCEPT ![t] = <<>>]
    /\ connects' = [connects EXCEPT ![t] = <<ConnectTarget(IndexLocation(self, p))>>]
    /\ result' = [result EXCEPT ![t] = None]
    /\ pc' = [pc EXCEPT ![t] = "connecting"]
    /\ partition_location' = SubSeq(partition_location, 1, p)
                                \o SubSeq(partition_location, p + 2, Len(partition_location))
    /\ UNCHANGED schema

\* execute(), up to the first await: log, index the list, start the connection.
ExecuteStart(t, p) ==
    /\ pc[t] \in {"idle", "done"}
    /\ op' = [op EXCEPT ![t] = "execute"]
    /\ partition' = [partition EXCEPT ![t] = p]
    /\ traces' = [traces EXCEPT ![t] = <<p>>]
    /\ connRes' = [connRes EXCEPT ![t] = None]
    /\ fetchRes' = [fetchRes EXCEPT ![t] = None]
    /\ fetches' = [fetches EXCEPT ![t] = <<>>]
    /\ yielded' = [yielded EXCEPT ![t] = <<>>]
    /\ IF InRange(self, p)
       THEN /\ connects' = [connects EXCEPT ![t] = <<ConnectTarget(IndexLocation(self, p))>>]
            /\ result' = [result EXCEPT ![t] = None]
            /\ pc' = [pc EXCEPT ![t] = "connecting"]
       ELSE /\ connects' = [connects EXCEPT ![t] = <<>>]
            /\ result' = [result EXCEPT ![t] = IndexPanic]
            /\ pc' = [pc EXCEPT ![t] = "done"]
    /\ UNCHANGED nodeVars

\* The connection is established: issue the fetch and await it.
ConnectOk(t) ==
    /\ pc[t] = "connecting"
    /\ connRes' = [connRes EXCEPT ![t] = [tag |-> "Ok"]]
    /\ fetches' = [fetches EXCEPT ![t] =
                     Append(@, FetchKey(IndexLocation(self, partition[t]), partition[t]))]
    /\ pc' = [pc EXCEPT ![t] = "fetching"]
    /\ UNCHANGED <<nodeVars, op, partition, traces, connects, fetchRes, result, yielded>>

\* Variant: a failed connection attempt is noted and the fetch issued anyway.
ConnectFail_FetchesAnyway(t, e) ==
    /\ pc[t] = "connecting"
    /\ connRes' = [connRes EXCEPT ![t] = [tag |-> "Err", cause |-> e]]
    /\ fetches' = [fetches EXCEPT ![t] =
                     Append(@, FetchKey(IndexLocation(self, partition[t]), partition[t]))]
    /\ pc' = [pc EXCEPT ![t] = "fetching"]
    /\ UNCHANGED <<nodeVars, op, partition, traces, connects, fetchRes, result, yielded>>

\* The connection attempt fails: map the error and return it.
ConnectFail(t, e) ==
    /\ pc[t] = "connecting"
    /\ connRes' = [connRes EXCEPT ![t] = [tag |-> "Err", cause |-> e]]
    /\ result' = [result EXCEPT ![t] = MapErr(e)]
    /\ pc' = [pc EXCEPT ![t] = "done"]
    /\ UNCHANGED <<nodeVars, op, partition, traces, connects, fetches, fetchRes, yielded>>

\* The fetch answers with the partition's batches: wrap and return them.
FetchOk(t, batches) ==
    /\ pc[t] = "fetching"
    /\ fetchRes' = [fetchRes EXCEPT ![t] = [tag |-> "Ok", batches |-> batches]]
    /\ result' = [result EXCEPT ![t] = WrapStream(self, batches)]
    /\ pc' = [pc EXCEPT ![t] = "done"]
    /\ UNCHANGED <<nodeVars, op, partition, traces, connects, fetches, connRes, yielded>>

\* Variant: a failed fetch is issued once more.
FetchFail_Retries(t, e) ==
    /\ pc[t] = "fetching"
    /\ fetchRes' = [fetchRes EXCEPT ![t] = [tag |-> "Err", cause |-> e]]
    /\ fetches' = [fetches EXCEPT ![t] =
                     Append(@, FetchKey(IndexLocation(self, partition[t]), partition[t]))]
    /\ UNCHANGED <<nodeVars, pc, op, partition, traces, connects, connRes, result, yielded>>

\* Variant: a failed fetch also fails every call that has already returned.
FetchFail_FailsAll(t, e) ==
    /\ pc[t] = "fetching"
    /\ fetchRes' = [fetchRes EXCEPT ![t] = [tag |-> "Err", cause |-> e]]
    /\ result' = [u \in Tasks |->
                    IF u = t \/ (op[u] = "execute" /\ pc[u] = "done")
                    THEN MapErr(e) ELSE result[u]]
    /\ pc' = [pc EXCEPT ![t] = "done"]
    /\ UNCHANGED <<nodeVars, op, partition, traces, connects, fetches, connRes, yielded>>

\* The fetch fails: map the error and return it.
FetchFail(t, e) ==
    /\ pc[t] = "fetching"
    /\ fetchRes' = [fetchRes EXCEPT ![t] = [tag |-> "Err", cause |-> e]]
    /\ result' = [result EXCEPT ![t] = MapErr(e)]
    /\ pc' = [pc EXCEPT ![t] = "done"]
    /\ UNCHANGED <<nodeVars, op, partition, traces, connects, fetches, connRes, yielded>>

\* The caller pulls the next item of the stream it was handed.
Poll(t) ==
    /\ pc[t] = "done"
    /\ op[t] = "execute"
    /\ result[t].tag = "Ok"
    /\ Len(yielded[t]) <= Len(result[t].stream.data)
    /\ LET r == PollNext(result[t].stream) IN
          /\ yielded' = [yielded EXCEPT ![t] = Append(@, r.item)]
          /\ result' = [result EXCEPT ![t].stream = r.stream]
    /\ UNCHANGED <<nodeVars, pc, op, partition, traces, connects, fetches, connRes, fetchRes>>

\* A task calls schema(); the call returns at once.
CallSchema(t) ==
    /\ pc[t] \in {"idle", "done"}
    /\ op[t] # "schema"
    /\ op' = [op EXCEPT ![t] = "schema"]
    /\ result' = [result EXCEPT ![t] = [tag |-> "Value", value |-> schema_of(self)]]
    /\ pc' = [pc EXCEPT ![t] = "done"]
    /\ partition' = [partition EXCEPT ![t] = 0]
    /\ traces' = [traces EXCEPT ![t] = <<>>]
    /\ connects' = [connects EXCEPT ![t] = <<>>]
    /\ fetches' = [fetches EXCEPT ![t] = <<>>]
    /\ connRes' = [connRes EXCEPT ![t] = None]
    /\ fetchRes' = [fetchRes EXCEPT ![t] = None]
    /\ yielded' = [yielded EXCEPT ![t] = <<>>]
    /\ UNCHANGED nodeVars

\* A task calls output_partitioning().
CallOutputPartitioning(t) ==
    /\ pc[t] \in {"idle", "done"}
    /\ op[t] # "output_partitioning"
    /\ op' = [op EXCEPT ![t] = "output_partitioning"]
    /\ result' = [result EXCEPT ![t] = [tag |-> "Value", value |-> output_partitioning(self)]]
    /\ pc' = [pc EXCEPT ![t] = "done"]
    /\ partition' = [partition EXCEPT ![t] = 0]
    /\ traces' = [traces EXCEPT ![t] = <<>>]
    /\ connects' = [connects EXCEPT ![t] = <<>>]
    /\ fetches' = [fetches EXCEPT ![t] = <<>>]
    /\ connRes' = [connRes EXCEPT ![t] = None]
    /\ fetchRes' = [fetchRes EXCEPT ![t] = None]
    /\ yielded' = [yielded EXCEPT ![t] = <<>>]
    /\ UNCHANGED nodeVars

\* A task calls children().
CallChildren(t) ==
    /\ pc[t] \in {"idle", "done"}
    /\ op[t] # "children"
    /\ op' = [op EXCEPT ![t] = "children"]
    /\ result' = [result EXCEPT ![t] = [tag |-> "Value", value |-> children(self)]]
    /\ pc' = [pc EXCEPT ![t] = "done"]
    /\ partition' = [partition EXCEPT ![t] = 0]
    /\ traces' = [traces EXCEPT ![t] = <<>>]
    /\ connects' = [connects EXCEPT ![t] = <<>>]
    /\ fetches' = [fetches EXCEPT ![t] = <<>>]
    /\ connRes' = [connRes EXCEPT ![t] = None]
    /\ fetchRes' = [fetchRes EXCEPT ![t] = None]
    /\ yielded' = [yielded EXCEPT ![t] = <<>>]
    /\ UNCHANGED nodeVars

\* A task calls with_new_children(ch).
CallWithNewChildren(t, ch) ==
    /\ pc[t] \in {"idle", "done"}
    /\ op' = [op EXCEPT ![t] = IF ch = <<>> THEN "with_new_children([])"
                                           ELSE "with_new_children([child])"]
    /\ op'[t] # op[t]
    /\ result' = [result EXCEPT ![t] = with_new_children(self, ch)]
    /\ pc' = [pc EXCEPT ![t] = "done"]
    /\ partition' = [partition EXCEPT ![t] = 0]
    /\ traces' = [traces EXCEPT ![t] = <<>>]
    /\ connects' = [connects EXCEPT ![t] = <<>>]
    /\ fetches' = [fetches EXCEPT ![t] = <<>>]
    /\ connRes' = [connRes EXCEPT ![t] = None]
    /\ fetchRes' = [fetchRes EXCEPT ![t] = None]
    /\ yielded' = [yielded EXCEPT ![t] = <<>>]
    /\ UNCHANGED nodeVars

Next ==
    \/ \E t \in Tasks, p \in PartitionArgs : ExecuteStart(t, p)
    \/ \E t \in Tasks : ConnectOk(t)
    \/ \E t \in Tasks, e \in ConnectErrors : ConnectFail(t, e)
    \/ \E t \in Tasks, b \in FetchReplies : FetchOk(t, b)
    \/ \E t \in Tasks, e \in FetchErrors : FetchFail(t, e)
    \/ \E t \in Tasks : Poll(t)
    \/ \E t \in Tasks : CallSchema(t)
    \/ \E t \in Tasks : CallOutputPartitioning(t)
    \/ \E t \in Tasks : CallChildren(t)
    \/ \E t \in Tasks, ch \in ChildArgs : CallWithNewChildren(t, ch)

Spec == Init /\ [][Next]_vars

\* ------------------------------------------------------------- properties
Location(p) == partition_location[p + 1]

Executes(t) == op[t] = "execute"

ExecutesInRange(t) == Executes(t) /\ partition[t] < Len(partition_location)

ExecutionError(cause) ==
    [tag |-> "Err", error |-> [kind |-> "Execution", msg |-> <<"Ballista Error: ", cause>>]]

\* C1: for a valid index i, execute(i) connects to exactly the host and port of
\* locations[i] and fetches exactly (locations[i].job, locations[i].stage, i);
\* no other worker is contacted and no other identity is requested.
C1_ContactsOwnLocation ==
    \A t \in Tasks : ExecutesInRange(t) =>
        /\ connects[t] = << [host |-> Location(partition[t]).executor_meta.host,
                            port |-> Location(partition[t]).executor_meta.port] >>
        /\ \A k \in 1..Len(fetches[t]) :
              fetches[t][k] = [job_uuid |-> Location(partition[t]).partition_id.job_uuid,
                               stage_id |-> Location(partition[t]).partition_id.stage_id,
                               partition_id |-> partition[t]]

\* A call for index 1 has fetched, where the location at index 1 carries another
\* partition number and the location at index 0 names another worker and stage.
C1_Witness ==
    \E t \in Tasks :
        /\ ExecutesInRange(t) /\ partition[t] = 1 /\ Len(fetches[t]) = 1
        /\ Location(1).partition_id.partition_id # 1
        /\ Location(0).executor_meta # Location(1).executor_meta
        /\ Location(0).partition_id.stage_id # Location(1).partition_id.stage_id

\* C2: execute(i) with i out of range returns an IndexError as an error value
\* and issues no connection and no fetch.
C2_OutOfRangeReturnsIndexError ==
    \A t \in Tasks : (Executes(t) /\ ~ExecutesInRange(t)) =>
        /\ pc[t] = "done"
        /\ connects[t] = <<>> /\ fetches[t] = <<>>
        /\ result[t].tag = "Err"
        /\ result[t].error.kind = "IndexError"

\* C3: when the connection attempt fails, execute(i) returns the execution
\* error, no stream, and issues no fetch; a fetch is only issued after a
\* successful connect of the same call.
C3_ConnectFailureNoFetch ==
    \A t \in Tasks :
        /\ (Executes(t) /\ connRes[t].tag = "Err") =>
              /\ pc[t] = "done"
              /\ result[t] = ExecutionError(connRes[t].cause)
              /\ fetches[t] = <<>>
        /\ fetches[t] # <<>> => connRes[t].tag = "Ok"

C3_Witness ==
    \E t \in Tasks :
        /\ ExecutesInRange(t) /\ connRes[t].tag = "Err"
        /\ pc[t] = "done" /\ Len(connects[t]) = 1

\* C4: a fetch failure after a successful connect yields the same kind of
\* execution error as a connection failure, differing in the message only, and
\* never a stream in place of the error.
C4_FetchFailureUniformError ==
    \A t \in Tasks :
        (Executes(t) /\ fetchRes[t].tag = "Err") =>
            /\ connRes[t].tag = "Ok"
            /\ pc[t] = "done"
            /\ result[t].tag = "Err"
            /\ result[t].error.kind = "Execution"
            /\ result[t].error.msg = <<"Ballista Error: ", fetchRes[t].cause>>
            /\ \A u \in Tasks : (Executes(u) /\ connRes[u].tag = "Err") =>
                  /\ result[u].tag = result[t].tag
                  /\ result[u].error.kind = result[t].error.kind
                  /\ DOMAIN result[u].error = DOMAIN result[t].error

\* One call failed in the fetch with a remote execution failure while another
\* failed in the connect.
C4_Witness ==
    \E t, u \in Tasks :
        /\ Executes(t) /\ fetchRes[t] = [tag |-> "Err", cause |-> "RemoteExecutionFailed"]
        /\ Executes(u) /\ connRes[u].tag = "Err"
        /\ result[t].error.msg # result[u].error.msg

\* C5: a call makes at most one connect attempt and at most one fetch; a
\* failure ends the call; a successful call made exactly one of each, the
\* fetch after the connect succeeded.
C5_NoRetry ==
    \A t \in Tasks :
        /\ Len(connects[t]) <= 1
        /\ Len(fetches[t]) <= 1
        /\ (connRes[t].tag = "Err" \/ fetchRes[t].tag = "Err") =>
              (pc[t] = "done" /\ result[t].tag = "Err")
        /\ (Executes(t) /\ result[t].tag = "Ok") =>
              /\ Len(connects[t]) = 1 /\ Len(fetches[t]) = 1
              /\ connRes[t].tag = "Ok" /\ fetchRes[t].tag = "Ok"

\* Both a call ended by a failed fetch and a call that succeeded are present.
C5_Witness ==
    \E t, u \in Tasks :
        /\ Executes(t) /\ fetchRes[t].tag = "Err" /\ pc[t] = "done"
        /\ Executes(u) /\ result[u].tag = "Ok"

\* C6: on success the returned stream carries the node's schema, has no row
\* cap, and yields exactly the fetched batches, in order, each once, and then
\* ends.
C6_StreamIsFetchedBatches ==
    \A t \in Tasks : (Executes(t) /\ result[t].tag = "Ok") =>
        LET b == fetchRes[t].batches
            y == yielded[t]
        IN  /\ result[t].stream.data = b
            /\ result[t].stream.schema = schema
            /\ result[t].stream.limit = None
            /\ Len(y) <= Len(b) + 1
            /\ \A k \in 1..Len(y) :
                  y[k] = IF k <= Len(b) THEN [tag |-> "Some", batch |-> b[k]] ELSE None

\* A reply of MaxBatches batches has been pulled to its end.
C6_Witness ==
    \E t \in Tasks :
        /\ Executes(t) /\ result[t].tag = "Ok"
        /\ Len(fetchRes[t].batches) = MaxBatches
        /\ Len(yielded[t]) = MaxBatches + 1
        /\ yielded[t][MaxBatches + 1] = None

\* C7: output_partitioning() reports an unknown partitioning whose count is
\* the length of the location list, whatever the length and whatever calls
\* ran before or run meanwhile.
C7_PartitionCountIsLen ==
    \A t \in Tasks : op[t] = "output_partitioning" =>
        result[t] = [tag |-> "Value",
                     value |-> [kind |-> "UnknownPartitioning",
                                n |-> Len(partition_location)]]

\* The count of an empty list is reported after the other task ran an execute.
C7_Witness ==
    \E t, u \in Tasks :
        /\ op[t] = "output_partitioning" /\ result[t].value.n = 0
        /\ Executes(u) /\ pc[u] = "done"

\* C8: with_new_children fails with the same plan error for an empty and for
\* a non-empty child list, returns no node, makes no network call, and
\* children() stays empty.
C8_WithNewChildrenFails ==
    \A t \in Tasks :
        /\ op[t] \in {"with_new_children([])", "with_new_children([child])"} =>
              /\ result[t].tag = "Err"
              /\ result[t].error.kind = "Plan"
              /\ connects[t] = <<>> /\ fetches[t] = <<>>
              /\ \A u \in Tasks :
                    op[u] \in {"with_new_children([])", "with_new_children([child])"} =>
                        result[u] = result[t]
        /\ op[t] = "children" => result[t] = [tag |-> "Value", value |-> <<>>]

\* One task called it with no children, the other with one child.
C8_Witness ==
    \E t, u \in Tasks :
        /\ op[t] = "with_new_children([])" /\ op[u] = "with_new_children([child])"

\* Two execute calls for different valid partitions served by distinct workers.
Independent(t, u) ==
    /\ t # u
    /\ ExecutesInRange(t) /\ ExecutesInRange(u)
    /\ partition[t] # partition[u]
    /\ Location(partition[t]).executor_meta # Location(partition[u]).executor_meta

\* What a finished call returns, from its own connect and fetch answers alone.
OwnOutcome(t) ==
    IF connRes[t].tag = "Err" THEN result[t] = ExecutionError(connRes[t].cause)
    ELSE IF fetchRes[t].tag = "Err" THEN result[t] = ExecutionError(fetchRes[t].cause)
    ELSE /\ result[t].tag = "Ok"
         /\ result[t].stream.data = fetchRes[t].batches

TaskState(t) ==
    <<pc[t], op[t], partition[t], traces[t], connects[t], fetches[t], connRes[t],
      fetchRes[t], result[t], yielded[t]>>

\* C9: with execute(0) and execute(1) running concurrently against distinct
\* workers, each call's outcome is determined by its own connect and fetch
\* answers, and no step of one call changes what the other call returned.
C9_CallsIndependent ==
    /\ [](\A t, u \in Tasks :
            (Independent(t, u) /\ pc[t] = "done") => OwnOutcome(t))
    /\ [][\A t, u \in Tasks :
            (Independent(t, u) /\ pc[t] = "done" /\ TaskState(u)' # TaskState(u)) =>
                (result'[t] = result[t] /\ yielded'[t] = yielded[t] /\ pc'[t] = pc[t])]_vars

\* One call returned its stream and the caller started reading it; the other
\* call, on another worker, failed.
C9_Witness ==
    \E t, u \in Tasks :
        /\ Independent(t, u)
        /\ result[t].tag = "Ok" /\ Len(yielded[t]) = 1 /\ Len(fetchRes[t].batches) = 2
        /\ pc[u] = "done" /\ result[u].tag = "Err"

\* C10: locations and schema never change after creation, whatever calls are
\* made, and schema() returns the stored schema on every call.
C10_NodeImmutable ==
    /\ [](\A t \in Tasks : op[t] = "schema" =>
            result[t] = [tag |-> "Value", value |-> schema])
    /\ [][partition_location' = partition_location /\ schema' = schema]_vars

\* schema() answered after the other task's execute failed; the list is not empty.
C10_Witness ==
    \E t, u \in Tasks :
        /\ op[t] = "schema"
        /\ ExecutesInRange(u) /\ result[u].tag = "Err"

====
